---- MODULE Spec2Model ----
(***************************************************************************)
(* The event-driven control loop of the daemon dashboard: the Event Source *)
(* task (events.rs), the unbounded event channel, the main loop run_app    *)
(* with its key dispatcher and the three RPC-issuing procedures (main.rs), *)
(* the application state (app.rs) and the gRPC client wrapper (client.rs). *)
(*                                                                         *)
(* The main loop is one task.  It is suspended only at its await points:   *)
(* the wait for the next event and the wait for an RPC's reply.  Its       *)
(* actions are cut at those points, at the draw and at the quit check; a   *)
(* handler runs in one action up to the RPC it awaits or to its end.       *)
(* The Event Source is a second task that shares only the channel; one     *)
(* action is one cycle of its loop.  main's own steps around run_app, the  *)
(* terminal setup and its restoration, are the actions SetupTerminal and   *)
(* RestoreTerminal of SpecMain.                                            *)
(*                                                                         *)
(* Left out of the App record: daemon_address (never written after         *)
(* construction), start_time and status_message (never read or written by  *)
(* the loop), and a log entry's wall-clock timestamp.                      *)
(***************************************************************************)
EXTENDS Integers, Sequences, FiniteSets, TLC

\* ------------------------------------------------------------ bounds
\* Events the Event Source emits in one run.
MaxEmit == 3
\* Distinct payloads a status or metrics reply can carry.
MaxSnap == 2
\* Granularity of the clock, and the longest time since the last tick that
\* is followed, both in milliseconds.
TimeStep == 125
MaxElapsed == 500

\* ------------------------------------------------------------ constants
TICK_RATE_MS == 250

\* ------------------------------------------------------------ app.rs
Disconnected == <<"Disconnected">>
Connecting == <<"Connecting">>
Connected == <<"Connected">>
Error(msg) == <<"Error", msg>>
ConnectionStatus ==
    {Disconnected, Connecting, Connected} \cup {Error(m) : m \in {"Connection failed"}}

FocusedPanel == {"Status", "Controls", "Logs"}

FocusedPanel_next(p) ==
    CASE p = "Status" -> "Controls"
      [] p = "Controls" -> "Logs"
      [] p = "Logs" -> "Status"

\* Mutant of FocusedPanel::prev: it cycles in the direction of next.
FocusedPanel_prev_forward(p) ==
    CASE p = "Status" -> "Controls"
      [] p = "Controls" -> "Logs"
      [] p = "Logs" -> "Status"

FocusedPanel_prev(p) ==
    CASE p = "Status" -> "Logs"
      [] p = "Controls" -> "Status"
      [] p = "Logs" -> "Controls"

\* ControlAction::ALL, indexed from 0 as in the source.
ALL == [i \in 0..3 |-> <<"Start", "Stop", "Restart", "Reload">>[i + 1]]
ALL_len == Cardinality(DOMAIN ALL)

label(action) == action

to_command(action) ==
    CASE action = "Start" -> "ControlCommand::Start"
      [] action = "Stop" -> "ControlCommand::Stop"
      [] action = "Restart" -> "ControlCommand::Restart"
      [] action = "Reload" -> "ControlCommand::Reload"

\* Option<T>
None == <<>>
Some(v) == <<v>>
is_some(o) == o # None

\* usize::saturating_sub
saturating_sub(a, b) == IF a >= b THEN a - b ELSE 0

\* App::default / App::new
App_new ==
    [should_quit |-> FALSE,
     connection_status |-> Disconnected,
     focused_panel |-> "Status",
     selected_action |-> 0,
     daemon_status |-> None,
     daemon_metrics |-> None,
     logs |-> <<>>,
     log_scroll |-> 0]

quit(a) == [a EXCEPT !.should_quit = TRUE]

focus_next(a) == [a EXCEPT !.focused_panel = FocusedPanel_next(@)]

focus_prev(a) == [a EXCEPT !.focused_panel = FocusedPanel_prev(@)]

\* Mutant of select_next_action: the selection wraps around at the end.
select_next_action_wraps(a) ==
    [a EXCEPT !.selected_action = (@ + 1) % ALL_len]

select_next_action(a) ==
    IF a.selected_action < ALL_len - 1
    THEN [a EXCEPT !.selected_action = @ + 1]
    ELSE a

select_prev_action(a) ==
    IF a.selected_action > 0
    THEN [a EXCEPT !.selected_action = @ - 1]
    ELSE a

\* Mutant of current_action: the first action whatever is selected.
current_action_first(a) == ALL[0]

current_action(a) == ALL[a.selected_action]

scroll_logs_up(a) ==
    IF a.log_scroll > 0
    THEN [a EXCEPT !.log_scroll = @ - 1]
    ELSE a

scroll_logs_down(a) ==
    IF a.log_scroll < saturating_sub(Len(a.logs), 1)
    THEN [a EXCEPT !.log_scroll = @ + 1]
    ELSE a

LogEntry(level, message) == [level |-> level, message |-> message]

\* Mutant of add_log: the entry is pushed and the scroll position is kept.
add_log_keeps_scroll(a, level, message) ==
    [a EXCEPT !.logs = Append(@, LogEntry(level, message))]

add_log(a, level, message) ==
    LET pushed == Append(a.logs, LogEntry(level, message))
    IN  [a EXCEPT !.logs = pushed,
                  !.log_scroll = saturating_sub(Len(pushed), 1)]

set_connection_status(a, status) == [a EXCEPT !.connection_status = status]

update_status(a, status) == [a EXCEPT !.daemon_status = Some(status)]

update_metrics(a, metrics) == [a EXCEPT !.daemon_metrics = Some(metrics)]

\* ------------------------------------------------------------ grpc/client.rs
DaemonClient_new == [client |-> None]

is_connected(cl) == is_some(cl.client)

\* Mutant of connect: a session is stored whether or not the channel was
\* established.
client_connect_stores_always(cl, ok) == [cl EXCEPT !.client = Some("channel")]

\* connect: the session is stored only when the channel was established.
client_connect(cl, ok) == IF ok THEN [cl EXCEPT !.client = Some("channel")] ELSE cl

client_disconnect(cl) == [cl EXCEPT !.client = None]

\* ------------------------------------------------------------ events.rs
\* Key codes and modifiers of the terminal library that the dispatcher
\* tells apart; "Esc" stands for every key without a binding.
KeyCode ==
    {"q", "Q", "c", "C", "d", "D", "Tab", "BackTab",
     "Up", "Down", "k", "j", "Enter", "Esc"}
KeyModifiers == {{}, {"CONTROL"}}

Key(code, modifiers) == [kind |-> "Key", code |-> code, modifiers |-> modifiers]
Tick == [kind |-> "Tick", code |-> "", modifiers |-> {}]
Mouse == [kind |-> "Mouse", code |-> "", modifiers |-> {}]
Resize == [kind |-> "Resize", code |-> "", modifiers |-> {}]

\* What event::read() hands to the polling task in the runs followed.
\* "Other" is a terminal event with no Event variant (focus, paste) or a
\* read error: the task sends nothing for it.
Other == [kind |-> "Other", code |-> "", modifiers |-> {}]
InputKeys ==
    {Key("q", {}), Key("c", {"CONTROL"}), Key("Tab", {}), Key("c", {}),
     Key("d", {}), Key("Down", {}), Key("Enter", {})}
TerminalEvents == InputKeys \cup {Mouse, Resize, Other}

\* An event in the channel carries the position at which it was sent.
Stamp(ev, n) == [ev |-> ev, id |-> n]
NoEvent == Stamp([kind |-> "None", code |-> "", modifiers |-> {}], 0)

\* Mutant of send: the item is put at the head of the buffer.
send_front(q, item) == <<item>> \o q

\* UnboundedSender::send: appends at the tail; fails when the receiver is gone.
send(q, item) == Append(q, item)

\* UnboundedReceiver::recv: the head of the queue; None when the queue is
\* empty and no sender is left; otherwise the caller stays suspended.
recv_ready(q, tx) == q # <<>> \/ tx = {}
recv_item(q) == IF q # <<>> THEN Some(Head(q)) ELSE None
recv_rest(q) == IF q # <<>> THEN Tail(q) ELSE q

\* ------------------------------------------------------------ main.rs
\* The main task between two await points: the application state, the
\* client, where the task is suspended next, the RPCs awaiting a reply and
\* the RPCs issued since the current event was taken.
Call(op, arg) == [op |-> op, arg |-> arg, result |-> "pending", value |-> 0]

\* An RPC is sent and the task suspends until its reply.
Issue(c, op, arg, at) ==
    [c EXCEPT !.inflight = @ \cup {op},
              !.calls = Append(@, Call(op, arg)),
              !.pc = at]

\* The reply of the RPC awaited has arrived.
Complete(c, op, result) ==
    [c EXCEPT !.inflight = @ \ {op},
              !.calls = [@ EXCEPT ![Len(@)].result = result]]

\* A reply: Ok(value) or Err.
Ok(v) == [ok |-> TRUE, value |-> v]
Err == [ok |-> FALSE, value |-> 0]
Snapshots == 1..MaxSnap
FetchResults == {Ok(v) : v \in Snapshots} \cup {Err}
ControlResults == {"success", "failure", "error"}

\* The reply of a fetch has arrived, with its payload if it is Ok.
Reply(c, op, res) ==
    LET c1 == Complete(c, op, IF res.ok THEN "ok" ELSE "err")
    IN  [c1 EXCEPT !.calls = [@ EXCEPT ![Len(@)].value = res.value]]

\* Mutant of after_metrics: a failed fetch clears the snapshot.
after_metrics_clears(c, res) ==
    LET c1 == IF c.pc = "await_metrics"
              THEN Reply(c, "get_metrics", res)
              ELSE c
    IN  [c1 EXCEPT !.app = IF res.ok
                           THEN update_metrics(@, res.value)
                           ELSE add_log([@ EXCEPT !.daemon_metrics = None],
                                        "ERROR", "Failed to get metrics: {e}"),
                   !.pc = "check"]

\* refresh_data from the reply of get_metrics on (lines 250-258).
after_metrics(c, res) ==
    LET c1 == IF c.pc = "await_metrics"
              THEN Reply(c, "get_metrics", res)
              ELSE c
    IN  [c1 EXCEPT !.app = IF res.ok
                           THEN update_metrics(@, res.value)
                           ELSE add_log(@, "ERROR", "Failed to get metrics: {e}"),
                   !.pc = "check"]

\* client.get_metrics(): fails at once without a session, else one exchange.
get_metrics(c) ==
    IF is_connected(c.client)
    THEN Issue(c, "get_metrics", "", "await_metrics")
    ELSE after_metrics([c EXCEPT !.pc = "check"], Err)

\* Mutant of after_status: a failed status fetch is taken for a lost
\* connection and sets the Error status.
after_status_marks_error(c, res) ==
    LET c1 == IF c.pc = "await_status"
              THEN Reply(c, "get_status", res)
              ELSE c
    IN  get_metrics(
            [c1 EXCEPT !.app = IF res.ok
                               THEN update_status(@, res.value)
                               ELSE add_log(set_connection_status(@, Error("Connection failed")),
                                            "ERROR", "Failed to get status: {e}")])

\* refresh_data from the reply of get_status to the call of get_metrics
\* (lines 240-250).
after_status(c, res) ==
    LET c1 == IF c.pc = "await_status"
              THEN Reply(c, "get_status", res)
              ELSE c
    IN  get_metrics(
            [c1 EXCEPT !.app = IF res.ok
                               THEN update_status(@, res.value)
                               ELSE add_log(@, "ERROR", "Failed to get status: {e}")])

\* Mutant of refresh_data: both fetches are sent before either is awaited.
refresh_data_concurrent(c) ==
    IF is_connected(c.client)
    THEN Issue(Issue(c, "get_metrics", "", "await_status"), "get_status", "", "await_status")
    ELSE [c EXCEPT !.pc = "check"]

\* refresh_data up to its first await: client.get_status().
refresh_data(c) ==
    IF is_connected(c.client)
    THEN Issue(c, "get_status", "", "await_status")
    ELSE after_status([c EXCEPT !.pc = "check"], Err)

\* Mutant of after_connect: a failed connect ends the program.
after_connect_gives_up(c, ok) ==
    LET c1 == [Complete(c, "connect", IF ok THEN "ok" ELSE "err")
                  EXCEPT !.client = client_connect(@, ok)]
    IN  IF ok
        THEN refresh_data(
                 [c1 EXCEPT !.app = add_log(set_connection_status(@, Connected),
                                            "INFO", "Connected successfully")])
        ELSE [c1 EXCEPT !.app = quit(add_log(
                                    set_connection_status(@, Error("Connection failed")),
                                    "ERROR", "Connection failed: {e}")),
                        !.pc = "check"]

\* Mutant of after_connect: the data is left to the next Tick to fetch.
after_connect_no_refresh(c, ok) ==
    LET c1 == [Complete(c, "connect", IF ok THEN "ok" ELSE "err")
                  EXCEPT !.client = client_connect(@, ok)]
    IN  IF ok
        THEN [c1 EXCEPT !.app = add_log(set_connection_status(@, Connected),
                                        "INFO", "Connected successfully"),
                        !.pc = "check"]
        ELSE [c1 EXCEPT !.app = add_log(
                                    set_connection_status(@, Error("Connection failed")),
                                    "ERROR", "Connection failed: {e}"),
                        !.pc = "check"]

\* Mutant of after_connect: a failed connect is tried once more.
after_connect_retries(c, ok) ==
    LET c1 == [Complete(c, "connect", IF ok THEN "ok" ELSE "err")
                  EXCEPT !.client = client_connect(@, ok)]
    IN  IF ok
        THEN refresh_data(
                 [c1 EXCEPT !.app = add_log(set_connection_status(@, Connected),
                                            "INFO", "Connected successfully")])
        ELSE IF Len(c1.calls) < 2
        THEN Issue(c1, "connect", "", "await_connect")
        ELSE [c1 EXCEPT !.app = add_log(
                                    set_connection_status(@, Error("Connection failed")),
                                    "ERROR", "Connection failed: {e}"),
                        !.pc = "check"]

\* Mutant of after_connect: a failed connect writes its log entry and
\* leaves the status as it found it.
after_connect_keeps_status(c, ok) ==
    LET c1 == [Complete(c, "connect", IF ok THEN "ok" ELSE "err")
                  EXCEPT !.client = client_connect(@, ok)]
    IN  IF ok
        THEN refresh_data(
                 [c1 EXCEPT !.app = add_log(set_connection_status(@, Connected),
                                            "INFO", "Connected successfully")])
        ELSE [c1 EXCEPT !.app = add_log(@, "ERROR", "Connection failed: {e}"),
                        !.pc = "check"]

\* connect_to_daemon from the reply of connect on (lines 185-196).
after_connect(c, ok) ==
    LET c1 == [Complete(c, "connect", IF ok THEN "ok" ELSE "err")
                  EXCEPT !.client = client_connect(@, ok)]
    IN  IF ok
        THEN refresh_data(
                 [c1 EXCEPT !.app = add_log(set_connection_status(@, Connected),
                                            "INFO", "Connected successfully")])
        ELSE [c1 EXCEPT !.app = add_log(
                                    set_connection_status(@, Error("Connection failed")),
                                    "ERROR", "Connection failed: {e}"),
                        !.pc = "check"]

\* connect_to_daemon up to its await (lines 176-185).
connect_to_daemon(c) ==
    IF is_connected(c.client)
    THEN [c EXCEPT !.app = add_log(@, "WARN", "Already connected")]
    ELSE Issue([c EXCEPT !.app = add_log(set_connection_status(@, Connecting),
                                         "INFO", "Connecting to daemon...")],
               "connect", "", "await_connect")

\* Mutant of disconnect_from_daemon: the guard on the session is missing.
disconnect_unguarded(c) ==
    [c EXCEPT !.client = client_disconnect(@),
              !.app = add_log(
                          [set_connection_status(@, Disconnected)
                              EXCEPT !.daemon_status = None,
                                     !.daemon_metrics = None],
                          "INFO", "Disconnected from daemon")]

\* Mutant of disconnect_from_daemon: the snapshots are not cleared.
disconnect_keeps_snapshots(c) ==
    IF ~is_connected(c.client)
    THEN [c EXCEPT !.app = add_log(@, "WARN", "Not connected")]
    ELSE [c EXCEPT !.client = client_disconnect(@),
                   !.app = add_log(set_connection_status(@, Disconnected),
                                   "INFO", "Disconnected from daemon")]

\* disconnect_from_daemon (lines 200-211).
disconnect_from_daemon(c) ==
    IF ~is_connected(c.client)
    THEN [c EXCEPT !.app = add_log(@, "WARN", "Not connected")]
    ELSE [c EXCEPT !.client = client_disconnect(@),
                   !.app = add_log(
                               [set_connection_status(@, Disconnected)
                                   EXCEPT !.daemon_status = None,
                                          !.daemon_metrics = None],
                               "INFO", "Disconnected from daemon")]

\* Mutant of after_control: a command that could not be sent ends the program.
after_control_quits(c, res) ==
    LET c1 == Complete(c, "control", res)
    IN  [c1 EXCEPT !.app = CASE res = "success" -> add_log(@, "INFO", "Success: {message}")
                             [] res = "failure" -> add_log(@, "WARN", "Failed: {message}")
                             [] res = "error" -> quit(add_log(@, "ERROR", "Command failed: {e}")),
                   !.pc = "check"]

\* execute_action from the reply of control on (lines 223-235).
after_control(c, res) ==
    LET c1 == Complete(c, "control", res)
    IN  [c1 EXCEPT !.app = CASE res = "success" -> add_log(@, "INFO", "Success: {message}")
                             [] res = "failure" -> add_log(@, "WARN", "Failed: {message}")
                             [] res = "error" -> add_log(@, "ERROR", "Command failed: {e}"),
                   !.pc = "check"]

\* Mutant of execute_action: the guard on the session is missing.
execute_action_unguarded(c) ==
    LET action == current_action(c.app)
        c1 == [c EXCEPT !.app = add_log(@, "INFO", "Executing: {label}")]
    IN  IF is_connected(c1.client)
        THEN Issue(c1, "control", to_command(action), "await_control")
        ELSE after_control(c1, "error")

\* execute_action up to its await (lines 214-223).
execute_action(c) ==
    IF ~is_connected(c.client)
    THEN [c EXCEPT !.app = add_log(@, "WARN", "Not connected - press 'c' to connect")]
    ELSE LET action == current_action(c.app)
             c1 == [c EXCEPT !.app = add_log(@, "INFO", "Executing: {label}")]
         IN  IF is_connected(c1.client)
             THEN Issue(c1, "control", to_command(action), "await_control")
             ELSE after_control(c1, "error")

\* Mutant of panel_bindings: the confirm key acts on the selected action
\* from the Logs panel as well.
panel_bindings_confirm_in_logs(c, code) ==
    IF c.app.focused_panel = "Controls"
    THEN IF code \in {"Up", "k"} THEN [c EXCEPT !.app = select_prev_action(@)]
         ELSE IF code \in {"Down", "j"} THEN [c EXCEPT !.app = select_next_action(@)]
         ELSE IF code = "Enter" THEN execute_action(c)
         ELSE c
    ELSE IF c.app.focused_panel = "Logs"
    THEN IF code \in {"Up", "k"} THEN [c EXCEPT !.app = scroll_logs_up(@)]
         ELSE IF code \in {"Down", "j"} THEN [c EXCEPT !.app = scroll_logs_down(@)]
         ELSE IF code = "Enter" THEN execute_action(c)
         ELSE c
    ELSE c

\* handle_key_event: the panel-scoped bindings (lines 154-172).
panel_bindings(c, code) ==
    IF c.app.focused_panel = "Controls"
    THEN IF code \in {"Up", "k"} THEN [c EXCEPT !.app = select_prev_action(@)]
         ELSE IF code \in {"Down", "j"} THEN [c EXCEPT !.app = select_next_action(@)]
         ELSE IF code = "Enter" THEN execute_action(c)
         ELSE c
    ELSE IF c.app.focused_panel = "Logs"
    THEN IF code \in {"Up", "k"} THEN [c EXCEPT !.app = scroll_logs_up(@)]
         ELSE IF code \in {"Down", "j"} THEN [c EXCEPT !.app = scroll_logs_down(@)]
         ELSE c
    ELSE c

\* Mutant of handle_key_event: the connect arm stands before the arm of
\* the quit combination.
handle_key_event_connect_first(c, code, modifiers) ==
    IF code \in {"q", "Q"} THEN [c EXCEPT !.app = quit(@)]
    ELSE IF code \in {"c", "C"} THEN connect_to_daemon(c)
    ELSE IF code = "c" /\ "CONTROL" \in modifiers THEN [c EXCEPT !.app = quit(@)]
    ELSE IF code = "Tab" THEN [c EXCEPT !.app = focus_next(@)]
    ELSE IF code = "BackTab" THEN [c EXCEPT !.app = focus_prev(@)]
    ELSE IF code \in {"d", "D"} THEN disconnect_from_daemon(c)
    ELSE panel_bindings(c, code)

\* handle_key_event: the global bindings in the order of the match arms,
\* then the panel-scoped ones.
handle_key_event(c, code, modifiers) ==
    IF code \in {"q", "Q"} THEN [c EXCEPT !.app = quit(@)]
    ELSE IF code = "c" /\ "CONTROL" \in modifiers THEN [c EXCEPT !.app = quit(@)]
    ELSE IF code = "Tab" THEN [c EXCEPT !.app = focus_next(@)]
    ELSE IF code = "BackTab" THEN [c EXCEPT !.app = focus_prev(@)]
    ELSE IF code \in {"c", "C"} THEN connect_to_daemon(c)
    ELSE IF code \in {"d", "D"} THEN disconnect_from_daemon(c)
    ELSE panel_bindings(c, code)

\* Mutant of dispatch: a Tick refreshes whether a session exists or not.
dispatch_refreshes_always(c, ev) ==
    LET c0 == [c EXCEPT !.pc = "check"]
    IN  IF ev.kind = "Key" THEN handle_key_event(c0, ev.code, ev.modifiers)
        ELSE IF ev.kind = "Tick" THEN refresh_data(c0)
        ELSE c0

\* run_app: the match on the event taken (lines 90-106).  The task reaches
\* the quit check unless the handler suspends on an RPC.
dispatch(c, ev) ==
    LET c0 == [c EXCEPT !.pc = "check"]
    IN  IF ev.kind = "Key" THEN handle_key_event(c0, ev.code, ev.modifiers)
        ELSE IF ev.kind = "Tick"
        THEN IF is_connected(c0.client) THEN refresh_data(c0) ELSE c0
        ELSE c0

\* Mutant of after_check: the loop goes back to the wait without drawing.
after_check_no_redraw(a) == IF a.should_quit THEN "done" ELSE "wait"

\* run_app: the check at the bottom of the loop (lines 109-112).
after_check(a) == IF a.should_quit THEN "done" ELSE "render"

\* ui/dashboard.rs, render_header: the status text of the frame.
status_text(a) ==
    CASE a.connection_status = Connected -> "Connected"
      [] a.connection_status = Connecting -> "Connecting..."
      [] a.connection_status = Disconnected -> "Disconnected"
      [] OTHER -> a.connection_status[2]

\* render_dashboard: the frame is a projection of the state it is given.
render_dashboard(a) == [status_text |-> status_text(a), shown |-> a]
NoFrame == [status_text |-> "", shown |-> App_new]

\* ------------------------------------------------------------ state
VARIABLES
    app,        \* main.rs: the App that main creates and run_app mutates
    client,     \* main.rs: the DaemonClient
    pc,         \* where the main task is: "render", "wait", "await_connect",
                \* "await_status", "await_metrics", "await_control", "check", "done"
    inflight,   \* the RPCs sent and not yet answered
    result,     \* what run_app returned: "none" while it runs, then "ok" or "err"
    queue,      \* the unbounded channel's buffer
    senders,    \* the channel's live senders: the handler's _tx, the task's event_tx
    rx_alive,   \* the receiver exists (the EventHandler has not been dropped)
    es_pc,      \* the polling task: "run" (at the top of its loop) or "stopped"
    elapsed,    \* last_tick.elapsed() at the top of the task's loop, in milliseconds
    nemitted,   \* events sent into the channel so far
    ntaken,     \* events the main loop has taken so far
    nrender,    \* frames drawn so far
    frame,      \* the frame drawn last
    cur,        \* the event being handled (NoEvent between iterations and for None)
    pre,        \* the App and client as they were when cur was taken
    last,       \* the event of the iteration before, and whether it found a session
    calls,      \* the RPCs issued since cur was taken, with their results
    fetched,    \* which snapshots a fetch has delivered since the last successful connect
    trail,      \* the latest focus keys taken (three at most), each with the panel it found
    tick_gap,   \* last_tick.elapsed() at the tick check of the task's latest cycle, if that
                \* check sent a Tick (0 if it sent none)
    terminal    \* the terminal: raw mode on or off, and whether main has tried to leave it

vars ==
    <<app, client, pc, inflight, result, queue, senders, rx_alive, es_pc, elapsed,
      nemitted, ntaken, nrender, frame, cur, pre, last, calls, fetched, trail, tick_gap,
      terminal>>

main_vars == <<app, client, pc, inflight, result, ntaken, nrender, frame, cur, pre,
               last, calls, fetched, trail, terminal>>

Times == {t \in 0..MaxElapsed : t % TimeStep = 0}

\* The main task's state as the handlers take it.
Ctx == [app |-> app, client |-> client, pc |-> pc, inflight |-> inflight, calls |-> calls]

\* The handlers' result becomes the main task's state.
Becomes(c) ==
    /\ app' = c.app
    /\ client' = c.client
    /\ pc' = c.pc
    /\ inflight' = c.inflight
    /\ calls' = c.calls

\* main: the App with its two start-up log lines and the client (lines 40-44).
App_main ==
    add_log(add_log(App_new, "INFO", "Daemon Controller started"),
            "INFO", "Target: {daemon_address}")

Snapshot(a, cl) == [app |-> a, client |-> cl]

\* The record of the focus keys: a Tab or BackTab taken is noted with the
\* panel that had the focus, and as many notes as there are panels are kept.
MaxTrail == Cardinality(FocusedPanel)
FocusKey(ev) == ev.kind = "Key" /\ ev.code \in {"Tab", "BackTab"}
Trail(tr, ev, panel) ==
    IF FocusKey(ev)
    THEN LET noted == Append(tr, [code |-> ev.code, panel |-> panel])
         IN  IF Len(noted) > MaxTrail THEN Tail(noted) ELSE noted
    ELSE tr

\* The terminal as main has it once setup_terminal has succeeded.
TerminalSetUp == [raw_mode |-> TRUE, restore_attempted |-> FALSE]
Handled(ev, connected) == [ev |-> ev, connected |-> connected]

InitMain ==
    /\ app = App_main
    /\ client = DaemonClient_new
    /\ pc = "render"
    /\ inflight = {}
    /\ result = "none"
    /\ ntaken = 0
    /\ nrender = 0
    /\ frame = NoFrame
    /\ cur = NoEvent
    /\ pre = Snapshot(App_main, DaemonClient_new)
    /\ last = Handled(NoEvent.ev, FALSE)
    /\ calls = <<>>
    /\ fetched = [status |-> FALSE, metrics |-> FALSE]
    /\ trail = <<>>
    /\ terminal = TerminalSetUp

\* run_app line 82: EventHandler::new has made the channel and spawned the task.
Init ==
    /\ InitMain
    /\ queue = <<>>
    /\ senders = {"_tx", "event_tx"}
    /\ rx_alive = TRUE
    /\ es_pc = "run"
    /\ elapsed = 0
    /\ tick_gap = 0
    /\ nemitted = 0

\* ------------------------------------------------------------ main loop
\* run_app returns: its EventHandler is dropped, and with it rx and _tx.
\* Dropping the receiver closes the channel and discards what it holds.
Return(how) ==
    /\ pc' = "done"
    /\ result' = how
    /\ rx_alive' = FALSE
    /\ senders' = senders \ {"_tx"}
    /\ queue' = <<>>

\* terminal.draw (line 86); an I/O error leaves run_app through `?`.  The
\* loop draws once before each wait, so the draws of a run are one more
\* than the events taken at most.
Render ==
    /\ pc = "render"
    /\ \E drawn \in BOOLEAN :
          IF drawn
          THEN /\ frame' = render_dashboard(app)
               /\ nrender' = nrender + 1
               /\ pc' = "wait"
               /\ UNCHANGED <<result, rx_alive, senders, queue>>
          ELSE /\ Return("err")
               /\ UNCHANGED <<frame, nrender>>
    /\ UNCHANGED <<app, client, inflight, ntaken, cur, pre, last, calls, fetched, trail>>
    /\ UNCHANGED <<es_pc, elapsed, nemitted, tick_gap, terminal>>

\* events.next().await returns, and the event is handled up to the next
\* await point (lines 89-107).
NextEvent ==
    /\ pc = "wait"
    /\ recv_ready(queue, senders)
    /\ LET item == recv_item(queue)
       IN  /\ queue' = recv_rest(queue)
           /\ pre' = Snapshot(app, client)
           /\ IF is_some(item)
              THEN /\ cur' = item[1]
                   /\ ntaken' = ntaken + 1
                   /\ trail' = Trail(trail, item[1].ev, app.focused_panel)
                   /\ Becomes(dispatch([Ctx EXCEPT !.calls = <<>>], item[1].ev))
              ELSE /\ cur' = NoEvent
                   /\ ntaken' = ntaken
                   /\ trail' = trail
                   /\ Becomes([Ctx EXCEPT !.calls = <<>>, !.pc = "check"])
    /\ UNCHANGED <<result, senders, rx_alive, nrender, frame, last, fetched>>
    /\ UNCHANGED <<es_pc, elapsed, nemitted, tick_gap, terminal>>

\* client.connect().await returns.
ConnectDone ==
    /\ pc = "await_connect"
    /\ \E ok \in BOOLEAN :
          /\ Becomes(after_connect(Ctx, ok))
          /\ fetched' = IF ok THEN [status |-> FALSE, metrics |-> FALSE] ELSE fetched
    /\ UNCHANGED <<result, queue, senders, rx_alive, ntaken, nrender, frame, cur, pre, last,
                   trail>>
    /\ UNCHANGED <<es_pc, elapsed, nemitted, tick_gap, terminal>>

\* client.get_status().await returns.
StatusDone ==
    /\ pc = "await_status"
    /\ \E res \in FetchResults :
          /\ Becomes(after_status(Ctx, res))
          /\ fetched' = IF res.ok THEN [fetched EXCEPT !.status = TRUE] ELSE fetched
    /\ UNCHANGED <<result, queue, senders, rx_alive, ntaken, nrender, frame, cur, pre, last,
                   trail>>
    /\ UNCHANGED <<es_pc, elapsed, nemitted, tick_gap, terminal>>

\* client.get_metrics().await returns.
MetricsDone ==
    /\ pc = "await_metrics"
    /\ \E res \in FetchResults :
          /\ Becomes(after_metrics(Ctx, res))
          /\ fetched' = IF res.ok THEN [fetched EXCEPT !.metrics = TRUE] ELSE fetched
    /\ UNCHANGED <<result, queue, senders, rx_alive, ntaken, nrender, frame, cur, pre, last,
                   trail>>
    /\ UNCHANGED <<es_pc, elapsed, nemitted, tick_gap, terminal>>

\* client.control(..).await returns.
ControlDone ==
    /\ pc = "await_control"
    /\ \E res \in ControlResults : Becomes(after_control(Ctx, res))
    /\ UNCHANGED <<result, queue, senders, rx_alive, ntaken, nrender, frame, cur, pre,
                   last, fetched, trail>>
    /\ UNCHANGED <<es_pc, elapsed, nemitted, tick_gap, terminal>>

\* The check of the quit flag (lines 109-115); the iteration is over.
QuitCheck ==
    /\ pc = "check"
    /\ IF after_check(app) = "done"
       THEN Return("ok")
       ELSE /\ pc' = after_check(app)
            /\ UNCHANGED <<result, rx_alive, senders, queue>>
    /\ last' = Handled(cur.ev, is_connected(pre.client))
    /\ cur' = NoEvent
    /\ pre' = Snapshot(app, client)
    /\ calls' = <<>>
    /\ UNCHANGED <<app, client, inflight, ntaken, nrender, frame, fetched, trail>>
    /\ UNCHANGED <<es_pc, elapsed, nemitted, tick_gap, terminal>>

\* Mutant of Cycle: a cycle that has sent an input event goes back to the
\* top of the loop without the tick check.
Cycle_input_skips_tick(input, t) ==
    LET sends_input == input.kind # "Other"
        sends_tick == ~sends_input /\ t >= TICK_RATE_MS
        n1 == IF sends_input THEN nemitted + 1 ELSE nemitted
        q1 == IF sends_input THEN send(queue, Stamp(input, n1)) ELSE queue
        n2 == IF sends_tick THEN n1 + 1 ELSE n1
        q2 == IF sends_tick THEN send(q1, Stamp(Tick, n2)) ELSE q1
    IN  /\ es_pc = "run"
        /\ t >= elapsed
        /\ n2 <= MaxEmit
        /\ IF rx_alive
           THEN /\ queue' = q2
                /\ nemitted' = n2
                /\ elapsed' = IF sends_tick THEN 0 ELSE t
                /\ tick_gap' = IF sends_tick THEN t ELSE 0
                /\ UNCHANGED <<es_pc, senders>>
           ELSE IF sends_input \/ sends_tick
           THEN /\ es_pc' = "stopped"
                /\ senders' = senders \ {"event_tx"}
                /\ elapsed' = t
                /\ tick_gap' = 0
                /\ UNCHANGED <<queue, nemitted>>
           ELSE /\ elapsed' = t
                /\ tick_gap' = 0
                /\ UNCHANGED <<queue, nemitted, es_pc, senders>>
        /\ UNCHANGED rx_alive
        /\ UNCHANGED main_vars

\* ------------------------------------------------------------ Event Source
\* Mutant of Cycle: one Tick is sent for every interval that has passed.
Cycle_catches_up(input, t) ==
    LET sends_input == input.kind # "Other"
        due == t \div TICK_RATE_MS
        sends_tick == due > 0
        n1 == IF sends_input THEN nemitted + 1 ELSE nemitted
        q1 == IF sends_input THEN send(queue, Stamp(input, n1)) ELSE queue
        n2 == n1 + due
        q2 == q1 \o [i \in 1..due |-> Stamp(Tick, n1 + i)]
    IN  /\ es_pc = "run"
        /\ t >= elapsed
        /\ n2 <= MaxEmit
        /\ IF rx_alive
           THEN /\ queue' = q2
                /\ nemitted' = n2
                /\ elapsed' = IF sends_tick THEN 0 ELSE t
                /\ tick_gap' = IF sends_tick THEN t ELSE 0
                /\ UNCHANGED <<es_pc, senders>>
           ELSE IF sends_input \/ sends_tick
           THEN /\ es_pc' = "stopped"
                /\ senders' = senders \ {"event_tx"}
                /\ elapsed' = t
                /\ tick_gap' = 0
                /\ UNCHANGED <<queue, nemitted>>
           ELSE /\ elapsed' = t
                /\ tick_gap' = 0
                /\ UNCHANGED <<queue, nemitted, es_pc, senders>>
        /\ UNCHANGED rx_alive
        /\ UNCHANGED main_vars

\* Mutant of Cycle: a send that fails is ignored and the loop goes on.
Cycle_ignores_closed(input, t) ==
    LET sends_input == input.kind # "Other"
        sends_tick == t >= TICK_RATE_MS
        n1 == IF sends_input THEN nemitted + 1 ELSE nemitted
        q1 == IF sends_input THEN send(queue, Stamp(input, n1)) ELSE queue
        n2 == IF sends_tick THEN n1 + 1 ELSE n1
        q2 == IF sends_tick THEN send(q1, Stamp(Tick, n2)) ELSE q1
    IN  /\ es_pc = "run"
        /\ t >= elapsed
        /\ n2 <= MaxEmit
        /\ IF rx_alive
           THEN /\ queue' = q2
                /\ nemitted' = n2
                /\ elapsed' = IF sends_tick THEN 0 ELSE t
                /\ tick_gap' = IF sends_tick THEN t ELSE 0
           ELSE /\ elapsed' = IF sends_tick THEN 0 ELSE t
                /\ tick_gap' = 0
                /\ UNCHANGED <<queue, nemitted>>
        /\ UNCHANGED <<es_pc, senders, rx_alive>>
        /\ UNCHANGED main_vars

\* One cycle of the polling task's loop (lines 37-72), which shares nothing
\* with the main task but the channel: `input` is what poll and read gave
\* (Other when nothing is to be sent), t is last_tick.elapsed() at the tick
\* check.  A send that fails ends the task.
Cycle(input, t) ==
    LET sends_input == input.kind # "Other"
        sends_tick == t >= TICK_RATE_MS
        n1 == IF sends_input THEN nemitted + 1 ELSE nemitted
        q1 == IF sends_input THEN send(queue, Stamp(input, n1)) ELSE queue
        n2 == IF sends_tick THEN n1 + 1 ELSE n1
        q2 == IF sends_tick THEN send(q1, Stamp(Tick, n2)) ELSE q1
    IN  /\ es_pc = "run"
        /\ t >= elapsed
        /\ n2 <= MaxEmit
        /\ IF rx_alive
           THEN /\ queue' = q2
                /\ nemitted' = n2
                /\ elapsed' = IF sends_tick THEN 0 ELSE t
                /\ tick_gap' = IF sends_tick THEN t ELSE 0
                /\ UNCHANGED <<es_pc, senders>>
           ELSE IF sends_input \/ sends_tick
           THEN /\ es_pc' = "stopped"
                /\ senders' = senders \ {"event_tx"}
                /\ elapsed' = t
                /\ tick_gap' = 0
                /\ UNCHANGED <<queue, nemitted>>
           ELSE /\ elapsed' = t
                /\ tick_gap' = 0
                /\ UNCHANGED <<queue, nemitted, es_pc, senders>>
        /\ UNCHANGED rx_alive
        /\ UNCHANGED main_vars

\* event::poll(timeout) returns true and event::read() gives a key, mouse
\* or resize event, which is sent (lines 44-60).
PollInput == \E ev \in TerminalEvents \ {Other}, t \in Times : Cycle(ev, t)

\* Nothing is sent before the tick check: event::read() gives an event of
\* another kind or an error (line 61), or event::poll itself fails, which
\* unwrap_or(false) turns into "no input" at any time.
PollOther == \E t \in Times : Cycle(Other, t)

\* event::poll(timeout) returns false: the time to the next tick has passed.
PollTimeout == \E t \in Times : t >= TICK_RATE_MS /\ Cycle(Other, t)

Next ==
    \/ Render
    \/ NextEvent
    \/ ConnectDone
    \/ StatusDone
    \/ MetricsDone
    \/ ControlDone
    \/ QuitCheck
    \/ PollInput
    \/ PollOther
    \/ PollTimeout

Spec == Init /\ [][Next]_vars

\* The steps of the main task alone.
NextLoop ==
    \/ Render
    \/ NextEvent
    \/ ConnectDone
    \/ StatusDone
    \/ MetricsDone
    \/ ControlDone
    \/ QuitCheck

\* The same with the scheduling the runtime gives: the main task is resumed
\* whenever it can go on (a draw returns, an event is waiting, an RPC is
\* answered), and the polling task's poll returns when the time to the next
\* tick has passed.
SpecFair == Spec /\ WF_vars(NextLoop) /\ WF_vars(PollTimeout)

\* The polling task while time advances, whatever the terminal has to
\* read: a cycle that finds last_tick.elapsed() at a later point of the time
\* grid than the cycle before, event::poll having returned with an event of
\* any kind or with none.  The spawned task is scheduled again and again
\* whatever the main task does, so such a cycle is not put off for ever.
Advance == \E ev \in TerminalEvents, t \in Times : t > elapsed /\ Cycle(ev, t)

SpecBusy == Spec /\ WF_vars(Advance)

\* run_app's loop on a burst of navigation keys: the polling task has sent
\* the whole burst before the first frame is drawn and is not scheduled
\* again.  The keys are those bound to focus_next, focus_prev, the
\* selection and scroll actions, connect and disconnect.
MaxKeys == 5
NavKeys ==
    {Key("Tab", {}), Key("BackTab", {}), Key("Up", {}), Key("Down", {}),
     Key("d", {}), Key("c", {})}
Bursts == UNION {[1..n -> NavKeys] : n \in 0..MaxKeys}

InitNav ==
    /\ InitMain
    /\ \E s \in Bursts :
          /\ queue = [i \in 1..Len(s) |-> Stamp(s[i], i)]
          /\ nemitted = Len(s)
    /\ senders = {"_tx", "event_tx"}
    /\ rx_alive = TRUE
    /\ es_pc = "run"
    /\ elapsed = 0
    /\ tick_gap = 0

NextNav ==
    \/ Render
    \/ NextEvent
    \/ ConnectDone
    \/ StatusDone
    \/ MetricsDone
    \/ QuitCheck

SpecNav == InitNav /\ [][NextNav]_vars

\* run_app's loop on a connect key followed by a burst of the keys that
\* reach the Controls panel, move its selection and confirm it.
ControlKeys == {Key("Tab", {}), Key("Down", {}), Key("Enter", {})}
ControlBursts == UNION {[1..n -> ControlKeys] : n \in 0..MaxKeys}

InitControl ==
    /\ InitMain
    /\ \E s \in ControlBursts :
          LET keys == <<Key("c", {})>> \o s
          IN  /\ queue = [i \in 1..Len(keys) |-> Stamp(keys[i], i)]
              /\ nemitted = Len(keys)
    /\ senders = {"_tx", "event_tx"}
    /\ rx_alive = TRUE
    /\ es_pc = "run"
    /\ elapsed = 0
    /\ tick_gap = 0

SpecControl == InitControl /\ [][NextLoop]_vars

\* run_app's loop on a burst of events of which most have no binding where
\* they arrive: pointer and resize events, a key that is bound nowhere, the
\* panel-scoped keys and the key that moves the focus, sent with or
\* without a connect key before them.
PanelEvents ==
    {Key("Tab", {}), Key("Up", {}), Key("Down", {}), Key("Enter", {}), Key("Esc", {}),
     Mouse, Resize}
PanelBursts == UNION {[1..n -> PanelEvents] : n \in 0..(MaxKeys - 1)}

InitPanel ==
    /\ InitMain
    /\ \E s \in PanelBursts, first \in {<<>>, <<Key("c", {})>>} :
          LET sent == first \o s
          IN  /\ queue = [i \in 1..Len(sent) |-> Stamp(sent[i], i)]
              /\ nemitted = Len(sent)
    /\ senders = {"_tx", "event_tx"}
    /\ rx_alive = TRUE
    /\ es_pc = "run"
    /\ elapsed = 0
    /\ tick_gap = 0

SpecPanel == InitPanel /\ [][NextLoop]_vars

\* ------------------------------------------------------------ main
\* The whole of main (lines 27-52): setup_terminal, run_app and
\* restore_terminal.  Before setup_terminal has returned there is no App, no
\* channel and no polling task: app and client hold the values they are
\* created with.
SetupOutcomes == {"raw_failed", "screen_failed", "backend_failed", "ok"}

\* setup_terminal (lines 55-62): enable_raw_mode, then the alternate screen
\* and the mouse capture, then Terminal::new, each leaving through `?`.
setup_terminal(term, outcome) ==
    IF outcome = "raw_failed" THEN term ELSE [term EXCEPT !.raw_mode = TRUE]

\* restore_terminal (lines 65-74): disable_raw_mode, then leaving the
\* alternate screen and the mouse capture, then show_cursor, each leaving
\* through `?`.  Raw mode stays on only when disable_raw_mode itself failed.
RestoreOutcomes == {"raw_failed", "screen_failed", "cursor_failed", "ok"}

restore_terminal(term, outcome) ==
    [term EXCEPT !.raw_mode = IF outcome = "raw_failed" THEN @ ELSE FALSE,
                 !.restore_attempted = TRUE]

InitStart ==
    /\ app = App_new
    /\ client = DaemonClient_new
    /\ pc = "main"
    /\ inflight = {}
    /\ result = "none"
    /\ ntaken = 0
    /\ nrender = 0
    /\ frame = NoFrame
    /\ cur = NoEvent
    /\ pre = Snapshot(App_new, DaemonClient_new)
    /\ last = Handled(NoEvent.ev, FALSE)
    /\ calls = <<>>
    /\ fetched = [status |-> FALSE, metrics |-> FALSE]
    /\ trail = <<>>
    /\ terminal = [raw_mode |-> FALSE, restore_attempted |-> FALSE]
    /\ queue = <<>>
    /\ senders = {}
    /\ rx_alive = FALSE
    /\ es_pc = "unspawned"
    /\ elapsed = 0
    /\ tick_gap = 0
    /\ nemitted = 0

\* main from setup_terminal()? to the entry of run_app's loop (lines 37-82):
\* an error of setup_terminal leaves main at once; otherwise the App and the
\* client are made, the two start-up lines logged, and EventHandler::new
\* makes the channel and spawns the polling task.
SetupTerminal ==
    /\ pc = "main"
    /\ \E outcome \in SetupOutcomes :
          /\ terminal' = setup_terminal(terminal, outcome)
          /\ IF outcome = "ok"
             THEN /\ app' = App_main
                  /\ pre' = Snapshot(App_main, DaemonClient_new)
                  /\ pc' = "render"
                  /\ senders' = {"_tx", "event_tx"}
                  /\ rx_alive' = TRUE
                  /\ es_pc' = "run"
                  /\ UNCHANGED result
             ELSE /\ pc' = "exit"
                  /\ result' = "err"
                  /\ UNCHANGED <<app, pre, senders, rx_alive, es_pc>>
    /\ UNCHANGED <<client, inflight, queue, elapsed, nemitted, ntaken, nrender, frame, cur,
                   last, calls, fetched, trail, tick_gap>>

\* main after run_app has returned (lines 46-51): restore_terminal(..)?,
\* which makes main return the error of any of its three steps, then
\* run_app's result.
RestoreTerminal ==
    /\ pc = "done"
    /\ \E outcome \in RestoreOutcomes :
          /\ terminal' = restore_terminal(terminal, outcome)
          /\ result' = IF outcome = "ok" THEN result ELSE "err"
    /\ pc' = "exit"
    /\ UNCHANGED <<app, client, inflight, queue, senders, rx_alive, es_pc, elapsed, nemitted,
                   ntaken, nrender, frame, cur, pre, last, calls, fetched, trail, tick_gap>>

NextMain ==
    \/ SetupTerminal
    \/ Next
    \/ RestoreTerminal

SpecMain == InitStart /\ [][NextMain]_vars

\* ------------------------------------------------------------ claims
\* The keys that reach connect_to_daemon, disconnect_from_daemon and, in
\* the Controls panel, execute_action.
ConnectKey(ev) ==
    /\ ev.kind = "Key"
    /\ ev.code \in {"c", "C"}
    /\ ~(ev.code = "c" /\ "CONTROL" \in ev.modifiers)
DisconnectKey(ev) == ev.kind = "Key" /\ ev.code \in {"d", "D"}
ConfirmKey(ev) == ev.kind = "Key" /\ ev.code = "Enter"

Appended(before, after) == SubSeq(after, Len(before) + 1, Len(after))
CountLevel(entries, level) ==
    Cardinality({i \in 1..Len(entries) : entries[i].level = level})

\* C1: ConnectionStatus changes only along Disconnected -> Connecting and
\* Error -> Connecting (a connect key taken while no session exists),
\* Connecting -> Connected (the connect call succeeded), Connecting -> Error
\* (it failed) and Connected -> Disconnected (a disconnect key taken while a
\* session exists); no other step changes it.
C1_StatusEdges ==
    [][app'.connection_status # app.connection_status =>
          \/ /\ app.connection_status \in {Disconnected, Error("Connection failed")}
             /\ app'.connection_status = Connecting
             /\ pc = "wait" /\ pc' = "await_connect"
             /\ ConnectKey(cur'.ev)
          \/ /\ app.connection_status = Connecting
             /\ app'.connection_status = Connected
             /\ pc = "await_connect"
             /\ calls'[Len(calls)].op = "connect" /\ calls'[Len(calls)].result = "ok"
          \/ /\ app.connection_status = Connecting
             /\ app'.connection_status = Error("Connection failed")
             /\ pc = "await_connect"
             /\ calls'[Len(calls)].op = "connect" /\ calls'[Len(calls)].result = "err"
          \/ /\ app.connection_status = Connected
             /\ app'.connection_status = Disconnected
             /\ pc = "wait" /\ pc' = "check"
             /\ DisconnectKey(cur'.ev)
    ]_vars

\* C1 witness: a session was opened and then closed by a disconnect key, and
\* a later connect attempt has failed.
C1_Witness ==
    /\ app.connection_status = Error("Connection failed")
    /\ DisconnectKey(last.ev)
    /\ last.connected

\* C2: between events, a snapshot is None exactly when the status is not
\* Connected or no fetch of its kind has succeeded since the last connect.
C2_SnapshotIffFetched ==
    pc \in {"render", "wait", "check", "done"} =>
        /\ (app.daemon_status = None) <=>
               (app.connection_status # Connected \/ ~fetched.status)
        /\ (app.daemon_metrics = None) <=>
               (app.connection_status # Connected \/ ~fetched.metrics)

\* C2 witness: connected, the status fetch has failed and the metrics fetch
\* has succeeded.
C2_Witness ==
    /\ pc = "wait"
    /\ app.connection_status = Connected
    /\ app.daemon_status = None
    /\ is_some(app.daemon_metrics)

\* C3: at most one RPC is in flight, it is the one the loop is suspended
\* on, and the loop takes an event only when none is in flight.
C3_OneRpcInFlight ==
    /\ [](/\ Cardinality(inflight) <= 1
          /\ pc \in {"render", "wait", "check", "done"} => inflight = {}
          /\ pc = "await_connect" => inflight = {"connect"}
          /\ pc = "await_status" => inflight = {"get_status"}
          /\ pc = "await_metrics" => inflight = {"get_metrics"}
          /\ pc = "await_control" => inflight = {"control"})
    /\ [][ntaken' # ntaken => inflight = {}]_vars

\* C3 witness: events pile up in the channel while an RPC is awaited.
C3_Witness ==
    /\ inflight = {"get_metrics"}
    /\ Len(queue) >= 2

\* C4 as claimed: the channel holds exactly the events sent and not yet
\* taken, in the order sent, and the event being handled is the one sent
\* just before them: nothing is dropped, duplicated, merged or reordered.
C4_FifoDelivery ==
    /\ Len(queue) = nemitted - ntaken
    /\ \A i \in 1..Len(queue) : queue[i].id = ntaken + i
    /\ cur # NoEvent => cur.id = ntaken

\* C4 amended: for as long as run_app holds the receiver the channel holds
\* exactly the events sent and not yet taken, in the order sent; an event
\* is taken from the head, one at a time, so each is handled once and in
\* the order sent, also those sent while an RPC was awaited; and every
\* event sent is taken in the end unless run_app returns first.  When
\* run_app returns, the events still in the channel are discarded with it
\* and none is taken afterwards.
C4_FifoUntilExit ==
    /\ [](rx_alive => Len(queue) = nemitted - ntaken)
    /\ [](\A i \in 1..Len(queue) : queue[i].id = ntaken + i)
    /\ [](cur # NoEvent => cur.id = ntaken)
    /\ [](~rx_alive => queue = <<>> /\ ntaken <= nemitted)
    /\ [][ntaken' # ntaken =>
             (rx_alive /\ ntaken' = ntaken + 1 /\ cur' = Head(queue)
                 /\ queue' = Tail(queue))]_vars
    /\ \A n \in 1..MaxEmit : (nemitted >= n) ~> (ntaken >= n \/ ~rx_alive)

\* C4 witness: a key and then a tick arrived while an RPC was awaited, and
\* the event before them is being handled.
C4_Witness ==
    /\ inflight # {}
    /\ Len(queue) = 2
    /\ queue[1].ev.kind = "Key"
    /\ queue[2].ev = Tick
    /\ cur.id = 1

\* run_app has returned on a quit key with an event sent and never
\* taken: the channel is empty all the same.
C4_WitnessDiscarded ==
    /\ pc = "done" /\ result = "ok"
    /\ nemitted > ntaken
    /\ queue = <<>>

\* C5: the loop draws exactly once before each event it takes, and the
\* frame drawn shows the state the event is handled in.
C5_RenderBeforeEachEvent ==
    /\ pc = "wait" => nrender = ntaken + 1 /\ frame = render_dashboard(app)
    /\ pc \notin {"wait"} => nrender = ntaken
    /\ pc \in {"await_connect", "await_status", "await_metrics", "await_control", "check"}
           => frame = render_dashboard(pre.app)

\* C5 witness: the second event is being handled, in a state the first
\* event produced and the second frame showed.
C5_Witness ==
    /\ pc = "check"
    /\ ntaken = 2
    /\ pre.app # App_main
    /\ frame.shown = pre.app

\* The loop leaves cleanly exactly when the quit flag is set at the check
\* that ends an iteration, and goes on to the next draw when it is not.
LeavesOnQuitFlag ==
    /\ [][(pc = "check" /\ pc' # pc)
              => IF app.should_quit
                 THEN pc' = "done" /\ result' = "ok"
                 ELSE pc' = "render" /\ result' = "none"]_vars
    /\ [][(result' = "ok" /\ result # "ok") => (pc = "check" /\ app.should_quit)]_vars

\* The EventHandler keeps its own sender for as long as it holds the
\* receiver, so events.next() yields an event every time, and the check is
\* never reached from a wait that yielded none.
NextAlwaysYields ==
    /\ rx_alive => "_tx" \in senders
    /\ pc = "check" => cur # NoEvent /\ cur.id = ntaken

\* The loop has left cleanly on a quit key, with the flag set.
LeftOnQuitKey ==
    /\ pc = "done" /\ result = "ok"
    /\ app.should_quit
    /\ last.ev.kind = "Key" /\ last.ev.code \in {"q", "Q"}
    /\ ~rx_alive

\* Every event sent has been taken and the channel is empty: the loop
\* waits, with the handler's sender still there.
WaitsOnEmptyChannel ==
    /\ pc = "wait"
    /\ queue = <<>> /\ ntaken = MaxEmit
    /\ ~recv_ready(queue, senders)

\* C7: a failed get_status or get_metrics appends one ERROR entry, keeps
\* both snapshots, the status and the session, and is followed by the next
\* step of the refresh only: no retry, no disconnect, no reconnect.
C7_FailedFetchKeepsSnapshot ==
    /\ [][(pc = "await_status" /\ pc' # pc /\ calls'[Len(calls)].result = "err")
              => /\ app'.logs = Append(app.logs,
                                       LogEntry("ERROR", "Failed to get status: {e}"))
                 /\ [app' EXCEPT !.logs = app.logs, !.log_scroll = app.log_scroll] = app
                 /\ client' = client
                 /\ pc' = "await_metrics"
                 /\ calls' = Append([calls EXCEPT ![Len(calls)].result = "err"],
                                    Call("get_metrics", ""))]_vars
    /\ [][(pc = "await_metrics" /\ pc' # pc /\ calls'[Len(calls)].result = "err")
              => /\ app'.logs = Append(app.logs,
                                       LogEntry("ERROR", "Failed to get metrics: {e}"))
                 /\ [app' EXCEPT !.logs = app.logs, !.log_scroll = app.log_scroll] = app
                 /\ client' = client
                 /\ pc' = "check"
                 /\ inflight' = {}
                 /\ calls' = [calls EXCEPT ![Len(calls)].result = "err"]]_vars

\* C7 witness: a tick's refresh has failed on both fetches while both
\* snapshots of an earlier refresh are held.
C7_Witness ==
    /\ pc = "check"
    /\ cur.ev = Tick
    /\ Len(calls) = 2
    /\ calls[1].result = "err"
    /\ calls[2].result = "err"
    /\ is_some(app.daemon_status)
    /\ is_some(app.daemon_metrics)

\* C8: a connect key taken without a session sets Connecting and makes one
\* connect call; when that call fails the status is Error("Connection
\* failed"), one INFO and exactly one ERROR entry have been appended, the
\* snapshots are None, there is no session and no second call was made.
C8_FailedConnect ==
    /\ pc = "await_connect" =>
          /\ ConnectKey(cur.ev)
          /\ ~is_connected(pre.client)
          /\ app = add_log(set_connection_status(pre.app, Connecting),
                           "INFO", "Connecting to daemon...")
          /\ calls = <<Call("connect", "")>>
    /\ (pc = "check" /\ ConnectKey(cur.ev) /\ ~is_connected(pre.client)) =>
          /\ calls # <<>>
          /\ calls[1].op = "connect"
          /\ calls[1].result = "err" =>
                /\ app.connection_status = Error("Connection failed")
                /\ Appended(pre.app.logs, app.logs) =
                       <<LogEntry("INFO", "Connecting to daemon..."),
                         LogEntry("ERROR", "Connection failed: {e}")>>
                /\ CountLevel(Appended(pre.app.logs, app.logs), "ERROR") = 1
                /\ app.daemon_status = None
                /\ app.daemon_metrics = None
                /\ ~is_connected(client)
                /\ Len(calls) = 1
                /\ inflight = {}
                /\ [app EXCEPT !.connection_status = pre.app.connection_status,
                               !.logs = pre.app.logs,
                               !.log_scroll = pre.app.log_scroll] = pre.app

\* C8 witness: the first event of a run was a connect key and the connect
\* call has failed.
C8_Witness ==
    /\ pc = "check"
    /\ pre.app = App_main
    /\ ConnectKey(cur.ev)
    /\ app.connection_status = Error("Connection failed")

\* C9: a disconnect key taken with a session closes it, sets Disconnected,
\* clears both snapshots and logs no WARN; a disconnect key taken right
\* after it finds no session, appends one WARN entry and changes nothing
\* else; neither makes an RPC.
C9_DisconnectTwice ==
    (pc = "check" /\ DisconnectKey(cur.ev)) =>
        /\ calls = <<>>
        /\ inflight = {}
        /\ is_connected(pre.client) =>
              /\ ~is_connected(client)
              /\ app.connection_status = Disconnected
              /\ app.daemon_status = None
              /\ app.daemon_metrics = None
              /\ Appended(pre.app.logs, app.logs) =
                     <<LogEntry("INFO", "Disconnected from daemon")>>
        /\ (DisconnectKey(last.ev) /\ last.connected) =>
              /\ ~is_connected(pre.client)
              /\ pre.app.connection_status = Disconnected
              /\ pre.app.daemon_status = None
              /\ pre.app.daemon_metrics = None
              /\ client = pre.client
              /\ Appended(pre.app.logs, app.logs) = <<LogEntry("WARN", "Not connected")>>
              /\ app = add_log(pre.app, "WARN", "Not connected")

\* C9 witness: the second of two disconnect keys in a row has been handled,
\* the first having found a session.
C9_Witness ==
    /\ pc = "check"
    /\ DisconnectKey(cur.ev)
    /\ DisconnectKey(last.ev)
    /\ last.connected

\* The three misuses and the message each logs.
ConnectWhileConnected == ConnectKey(cur.ev) /\ is_connected(pre.client)
DisconnectWhileDisconnected == DisconnectKey(cur.ev) /\ ~is_connected(pre.client)
ExecuteWhileDisconnected ==
    /\ ConfirmKey(cur.ev)
    /\ pre.app.focused_panel = "Controls"
    /\ ~is_connected(pre.client)
MisuseMessage ==
    IF ConnectWhileConnected THEN "Already connected"
    ELSE IF DisconnectWhileDisconnected THEN "Not connected"
    ELSE "Not connected - press 'c' to connect"

\* C10: connect with a session, disconnect without one and execute without
\* one make no RPC, append exactly one WARN entry (after which, as after
\* every append, log_scroll is the newest index) and leave every other
\* field of the state and the client as they were.
C10_MisuseOnlyWarns ==
    (ConnectWhileConnected \/ DisconnectWhileDisconnected \/ ExecuteWhileDisconnected) =>
        /\ pc = "check"
        /\ calls = <<>>
        /\ inflight = {}
        /\ client = pre.client
        /\ app.logs = Append(pre.app.logs, LogEntry("WARN", MisuseMessage))
        /\ app.log_scroll = Len(app.logs) - 1
        /\ [app EXCEPT !.logs = pre.app.logs, !.log_scroll = pre.app.log_scroll] = pre.app

\* C10 witness: the confirm key was pressed in the Controls panel without a
\* session.
C10_Witness ==
    /\ pc = "check"
    /\ ExecuteWhileDisconnected

\* The other two misuses occur as well.
C10_WitnessConnect == pc = "check" /\ ConnectWhileConnected
C10_WitnessDisconnect == pc = "check" /\ DisconnectWhileDisconnected

\* The selection bindings of the Controls panel (main.rs lines 156-158).
SelectNextKey(ev) == ev.kind = "Key" /\ ev.code \in {"Down", "j"}
SelectPrevKey(ev) == ev.kind = "Key" /\ ev.code \in {"Up", "k"}

\* C11: selected_action is always an index of the four control actions.
\* While an event is handled and after it, selected_action is what it was
\* when the event was taken, except for a select-next key taken in the
\* Controls panel, which adds one but stays at 3, and a select-previous key
\* taken there, which subtracts one but stays at 0; nothing wraps around.
C11_SelectedAction ==
    /\ app.selected_action \in 0..3
    /\ ALL_len = 4
    /\ LET before == pre.app.selected_action
           in_controls == pre.app.focused_panel = "Controls"
       IN  app.selected_action =
               IF in_controls /\ SelectNextKey(cur.ev)
               THEN IF before = 3 THEN 3 ELSE before + 1
               ELSE IF in_controls /\ SelectPrevKey(cur.ev)
               THEN IF before = 0 THEN 0 ELSE before - 1
               ELSE before

\* C11 witness: select-next was pressed with the last action selected and
\* the selection stayed there.
C11_Witness ==
    /\ pc = "check"
    /\ SelectNextKey(cur.ev)
    /\ pre.app.focused_panel = "Controls"
    /\ pre.app.selected_action = 3
    /\ app.selected_action = 3

\* Select-previous with the first action selected occurs as well, and so
\* do moves in both directions.
C11_WitnessBottom ==
    /\ pc = "check"
    /\ SelectPrevKey(cur.ev)
    /\ pre.app.focused_panel = "Controls"
    /\ pre.app.selected_action = 0
    /\ app.selected_action = 0
C11_WitnessDown ==
    /\ pc = "check"
    /\ SelectPrevKey(cur.ev)
    /\ pre.app.selected_action = 2
    /\ app.selected_action = 1

\* The index of the newest log entry (0 for an empty log).
Newest(a) == IF a.logs = <<>> THEN 0 ELSE Len(a.logs) - 1

\* C12: log_scroll is an index of the log (0 when the log is empty).  Once
\* the handling of an event has appended to the log, for whatever reason,
\* log_scroll is the index of the newest entry.  As long as it has appended
\* nothing, log_scroll is what it was when the event was taken, except for
\* a scroll-up key taken in the Logs panel, which subtracts one but stays
\* at 0, and a scroll-down key taken there, which adds one but stays at the
\* newest index.
C12_LogScroll ==
    /\ app.log_scroll \in 0..Newest(app)
    /\ LET before == pre.app.log_scroll
           in_logs == pre.app.focused_panel = "Logs"
       IN  IF app.logs # pre.app.logs
           THEN app.log_scroll = Len(app.logs) - 1
           ELSE app.log_scroll =
                    IF in_logs /\ SelectPrevKey(cur.ev)
                    THEN IF before = 0 THEN 0 ELSE before - 1
                    ELSE IF in_logs /\ SelectNextKey(cur.ev)
                    THEN IF before = Newest(pre.app) THEN before ELSE before + 1
                    ELSE before

\* C12 witness: the view had been scrolled away from the newest entry when
\* a failed fetch appended an ERROR entry, and it is at the newest entry
\* again.
C12_Witness ==
    /\ pc = "check"
    /\ pre.app.log_scroll < Newest(pre.app)
    /\ Len(app.logs) > Len(pre.app.logs)
    /\ app.logs[Len(app.logs)].level = "ERROR"
    /\ \E i \in 1..Len(calls) : calls[i].op = "get_metrics" /\ calls[i].result = "err"
    /\ app.log_scroll = Len(app.logs) - 1

\* Scrolling up moves away from the newest entry, scrolling down moves
\* back, and a disconnect key appends while the view is scrolled away.
C12_WitnessUp ==
    /\ pc = "check"
    /\ SelectPrevKey(cur.ev)
    /\ pre.app.log_scroll = Newest(pre.app)
    /\ app.log_scroll = Newest(app) - 1
C12_WitnessDown ==
    /\ pc = "check"
    /\ SelectNextKey(cur.ev)
    /\ app.log_scroll = pre.app.log_scroll + 1
C12_WitnessKey ==
    /\ pc = "check"
    /\ DisconnectKey(cur.ev)
    /\ pre.app.log_scroll < Newest(pre.app)
    /\ app.log_scroll = Newest(app)

\* The latest n focus keys noted were all `code`.
LatestWere(n, code) ==
    /\ Len(trail) >= n
    /\ \A i \in (Len(trail) - n + 1)..Len(trail) : trail[i].code = code
\* The panel that had the focus before the latest n focus keys.
PanelBefore(n) == trail[Len(trail) - n + 1].panel

\* C13: after one focus-next, and after two in a row, the focus is not on
\* the panel it started from, and after three in a row it is, whichever
\* panel that was; a focus-prev right after a focus-next, and a focus-next
\* right after a focus-prev, put the focus back where it was before the
\* two.
C13_FocusCycle ==
    /\ app.focused_panel \in FocusedPanel
    /\ LatestWere(1, "Tab") => app.focused_panel # PanelBefore(1)
    /\ LatestWere(2, "Tab") => app.focused_panel # PanelBefore(2)
    /\ LatestWere(3, "Tab") => app.focused_panel = PanelBefore(3)
    /\ Len(trail) >= 2 =>
          LET n == Len(trail)
          IN  /\ trail[n - 1].code = "Tab" /\ trail[n].code = "BackTab"
                    => app.focused_panel = PanelBefore(2)
              /\ trail[n - 1].code = "BackTab" /\ trail[n].code = "Tab"
                    => app.focused_panel = PanelBefore(2)

\* C13 witness: three focus-next keys were taken with the focus on Logs,
\* and it is on Logs again.
C13_Witness ==
    /\ pc = "check"
    /\ LatestWere(3, "Tab")
    /\ PanelBefore(3) = "Logs"
    /\ app.focused_panel = "Logs"

\* The same from Status and from Controls, and the two round trips.
C13_WitnessStatus ==
    LatestWere(3, "Tab") /\ PanelBefore(3) = "Status" /\ app.focused_panel = "Status"
C13_WitnessControls ==
    LatestWere(3, "Tab") /\ PanelBefore(3) = "Controls" /\ app.focused_panel = "Controls"
C13_WitnessNextPrev ==
    /\ Len(trail) >= 2
    /\ trail[Len(trail) - 1].code = "Tab" /\ trail[Len(trail)].code = "BackTab"
    /\ PanelBefore(2) = "Controls" /\ app.focused_panel = "Controls"
C13_WitnessPrevNext ==
    /\ Len(trail) >= 2
    /\ trail[Len(trail) - 1].code = "BackTab" /\ trail[Len(trail)].code = "Tab"
    /\ PanelBefore(2) = "Logs" /\ app.focused_panel = "Logs"

\* C14: main never exits with raw mode on and no attempt made to leave it,
\* whether it exits from a failed terminal setup, after an error of the
\* main loop or after a quit.
C14_RestoreOnEveryExit ==
    pc = "exit" /\ terminal.raw_mode => terminal.restore_attempted

\* After run_app has returned, with an error or without, main does attempt
\* the restoration before it exits; the setup is the one path that does not.
C14_RestoredAfterLoop ==
    pc = "exit" /\ nrender + ntaken > 0 => terminal.restore_attempted
C14_WitnessLoopError ==
    /\ pc = "exit" /\ result = "err" /\ ~app.should_quit
    /\ terminal.restore_attempted /\ ~terminal.raw_mode
\* The loop has left cleanly and a later step of restore_terminal has
\* failed: raw mode is off and main returns the error.
C14_WitnessRestoreError ==
    /\ pc = "exit" /\ result = "err" /\ app.should_quit
    /\ terminal.restore_attempted /\ ~terminal.raw_mode
SetupEntersLoop == [][pc = "main" /\ pc' = "render" => Init']_vars

\* C15: while the receiver exists the polling task runs.  Once the receiver
\* is gone nothing more enters the channel, a task that has stopped stays
\* stopped, and the task, which has sends left to attempt, does stop: a
\* tick comes due, its send fails and the loop is left.
C15_SourceStopsAfterConsumer ==
    /\ [](rx_alive => es_pc = "run")
    /\ [][~rx_alive => queue' = queue /\ nemitted' = nemitted]_vars
    /\ [][es_pc = "stopped" => es_pc' = "stopped" /\ ~rx_alive]_vars
    /\ (~rx_alive /\ nemitted < MaxEmit) ~> (es_pc = "stopped")

\* C15 witness: run_app has returned and the polling task has stopped at a
\* failed send, its sender dropped with it.
C15_Witness ==
    /\ pc = "done"
    /\ ~rx_alive
    /\ es_pc = "stopped"
    /\ senders = {}
    /\ nemitted < MaxEmit

\* The positions in the channel after the step of the events the step sent.
SentInStep(q, n) == {i \in 1..Len(q) : q[i].id > n}

\* C16: a cycle of the polling task sends a Tick exactly when an interval
\* or more has passed since the last Tick (or since the start), and then a
\* single one, however many intervals have passed, put behind the input
\* event of that cycle; the time since the last Tick then starts again
\* from zero.  So, while the receiver exists, less than an interval has
\* passed at the top of the loop, and two Ticks are an interval or more
\* apart.
C16_TickPerInterval ==
    /\ [](tick_gap # 0 => tick_gap >= TICK_RATE_MS /\ elapsed = 0)
    /\ [](rx_alive => elapsed < TICK_RATE_MS)
    /\ [][<<nemitted, elapsed, tick_gap, es_pc>>' # <<nemitted, elapsed, tick_gap, es_pc>> =>
             LET sent == SentInStep(queue', nemitted)
                 ticks == {i \in sent : queue'[i].ev = Tick}
             IN  /\ Cardinality(sent) = nemitted' - nemitted
                 /\ Cardinality(ticks) <= 1
                 /\ Cardinality(ticks) = 1 <=> tick_gap' >= TICK_RATE_MS
                 /\ ticks # {} => ticks = {Len(queue')} /\ elapsed' = 0
                 /\ ticks = {} /\ rx_alive => elapsed' >= elapsed /\ elapsed' < TICK_RATE_MS]_vars

\* C16 witness: the tick check ran after two whole intervals, and the one
\* Tick it sent is the only event sent so far.
C16_Witness ==
    /\ tick_gap >= 2 * TICK_RATE_MS
    /\ elapsed = 0
    /\ nemitted = 1
    /\ queue = <<Stamp(Tick, 1)>>

\* A cycle at less than an interval sends its input and no Tick, and a
\* second Tick follows a first.
C16_WitnessNotDue ==
    /\ elapsed > 0
    /\ nemitted = 1
    /\ Len(queue) = 1 /\ queue[1].ev # Tick
C16_WitnessSecond ==
    /\ tick_gap >= TICK_RATE_MS
    /\ Len(queue) >= 2
    /\ queue[Len(queue)].ev = Tick /\ queue[Len(queue) - 1].ev = Tick

\* The main task is suspended on an RPC; an RPC made for the event being
\* handled has failed.
Awaits == {"await_connect", "await_status", "await_metrics", "await_control"}
FailedCall == \E i \in 1..Len(calls) : calls[i].result \in {"err", "failure", "error"}

\* C17: the reply to an RPC, failure or not, leaves the quit flag as it was
\* and the loop running, and after a failed call the loop goes on to the
\* quit check with the flag unset and from there to the next draw.  With
\* every RPC answered and the main task resumed whenever it can go on,
\* every event sent into the channel is taken by the loop unless the loop
\* has ended before.
C17_FailedCallNeverHalts ==
    /\ [](FailedCall => ~app.should_quit /\ pc \in Awaits \cup {"check"} /\ result = "none")
    /\ [][pc' # pc /\ pc \in Awaits =>
             (pc' \in Awaits \cup {"check"}
                 /\ app'.should_quit = app.should_quit
                 /\ result' = "none")]_vars
    /\ [][FailedCall /\ pc = "check" /\ pc' # pc => pc' = "render"]_vars
    /\ \A i \in 1..MaxEmit : (nemitted >= i) ~> (ntaken >= i \/ pc = "done")

\* C17 witness: the connect call of the first event has failed, and a
\* second event is being handled.
C17_Witness ==
    /\ app.connection_status = Error("Connection failed")
    /\ cur.id = 2
    /\ pc = "check"
    /\ ~app.should_quit

\* A failed control call and a failed fetch on a Tick leave the loop
\* running as well.
C17_WitnessControl ==
    pc = "check" /\ calls # <<>> /\ calls[1].op = "control" /\ calls[1].result = "error"
C17_WitnessTick ==
    pc = "check" /\ cur.ev = Tick /\ FailedCall

\* The quit bindings: the quit key, and the quit combination Ctrl+c.
QuitKey(ev) == ev.kind = "Key" /\ ev.code \in {"q", "Q"}
QuitCombo(ev) == ev.kind = "Key" /\ ev.code = "c" /\ "CONTROL" \in ev.modifiers

\* The fields of the App that differ from what they were when the event
\* being handled was taken, and the RPCs made for it.
ChangedFields == {f \in DOMAIN app : app[f] # pre.app[f]}
CalledOps == {calls[i].op : i \in 1..Len(calls)}
ConnectFields ==
    {"connection_status", "logs", "log_scroll", "daemon_status", "daemon_metrics"}

\* C18: a key event does the work of one binding and no more.  A quit key
\* and Ctrl+c set the quit flag and nothing else, and no RPC is made; a
\* focus key moves the focus and nothing else; a connect or disconnect key
\* touches the connection status, the snapshots and the log only, connect
\* making no RPC but its own and the refresh, disconnect none; and none of
\* these moves the selection, scrolls the log or sends a command, whatever
\* panel has the focus.  A key without a global binding does the work of
\* the focused panel's binding alone.
C18_OneBindingFires ==
    cur.ev.kind = "Key" =>
        LET ev == cur.ev
            panel == pre.app.focused_panel
        IN  IF QuitKey(ev) \/ QuitCombo(ev)
            THEN /\ app = [pre.app EXCEPT !.should_quit = TRUE]
                 /\ client = pre.client /\ calls = <<>> /\ pc = "check"
            ELSE IF FocusKey(ev)
            THEN /\ ChangedFields = {"focused_panel"}
                 /\ client = pre.client /\ calls = <<>> /\ pc = "check"
            ELSE IF ConnectKey(ev)
            THEN /\ ChangedFields \subseteq ConnectFields
                 /\ CalledOps \subseteq {"connect", "get_status", "get_metrics"}
                 /\ calls # <<>> => calls[1].op = "connect"
            ELSE IF DisconnectKey(ev)
            THEN /\ ChangedFields \subseteq ConnectFields
                 /\ calls = <<>> /\ pc = "check"
            ELSE IF panel = "Controls" /\ (SelectNextKey(ev) \/ SelectPrevKey(ev))
            THEN /\ ChangedFields \subseteq {"selected_action"}
                 /\ client = pre.client /\ calls = <<>> /\ pc = "check"
            ELSE IF panel = "Controls" /\ ConfirmKey(ev)
            THEN /\ ChangedFields \subseteq {"logs", "log_scroll"}
                 /\ client = pre.client /\ CalledOps \subseteq {"control"}
            ELSE IF panel = "Logs" /\ (SelectNextKey(ev) \/ SelectPrevKey(ev))
            THEN /\ ChangedFields \subseteq {"log_scroll"}
                 /\ client = pre.client /\ calls = <<>> /\ pc = "check"
            ELSE /\ ChangedFields = {}
                 /\ client = pre.client /\ calls = <<>> /\ pc = "check"

\* C18 witness: Ctrl+c was taken with the focus on the Controls panel and
\* no session; the quit flag is set and no connect was attempted.
C18_Witness ==
    /\ pc = "check"
    /\ cur.ev = Key("c", {"CONTROL"})
    /\ pre.app.focused_panel = "Controls"
    /\ ~is_connected(pre.client)
    /\ app.should_quit
    /\ app.connection_status = pre.app.connection_status
    /\ calls = <<>>

\* A connect key and a confirm key in the Controls panel do their own
\* binding's work.
C18_WitnessConnect ==
    /\ pc = "check"
    /\ cur.ev = Key("c", {})
    /\ pre.app.focused_panel = "Controls"
    /\ CalledOps = {"connect", "get_status", "get_metrics"}
C18_WitnessConfirm ==
    /\ pc = "check"
    /\ ConfirmKey(cur.ev)
    /\ CalledOps = {"control"}

\* What a fetch that has been answered makes of the App: the payload in
\* the snapshot of its kind, or one ERROR entry at the end of the log.
Answered(a, field, message, call) ==
    IF call.result = "ok"
    THEN [a EXCEPT ![field] = Some(call.value)]
    ELSE [a EXCEPT !.logs = Append(@, LogEntry("ERROR", message)),
                   !.log_scroll = Len(a.logs)]

\* C19: a Tick taken without a session makes no RPC and changes nothing.
\* A Tick taken with a session makes get_status; when that is answered,
\* Ok or not, it makes get_metrics; when that is answered the handling is
\* over, with two calls made.  Each Ok answer has put its payload in the
\* snapshot of its kind and each failed one has appended one ERROR entry,
\* and nothing else has changed.
C19_TickRefresh ==
    cur.ev = Tick =>
        IF ~is_connected(pre.client)
        THEN /\ pc = "check"
             /\ calls = <<>> /\ inflight = {}
             /\ app = pre.app /\ client = pre.client
        ELSE LET after_one == Answered(pre.app, "daemon_status",
                                       "Failed to get status: {e}", calls[1])
                 after_two == Answered(after_one, "daemon_metrics",
                                       "Failed to get metrics: {e}", calls[2])
             IN  /\ client = pre.client
                 /\ pc \in {"await_status", "await_metrics", "check"}
                 /\ pc = "await_status" =>
                       calls = <<Call("get_status", "")>> /\ app = pre.app
                 /\ pc = "await_metrics" =>
                       /\ Len(calls) = 2
                       /\ calls[1].op = "get_status" /\ calls[1].result \in {"ok", "err"}
                       /\ calls[2] = Call("get_metrics", "")
                       /\ app = after_one
                 /\ pc = "check" =>
                       /\ Len(calls) = 2
                       /\ calls[1].op = "get_status" /\ calls[1].result \in {"ok", "err"}
                       /\ calls[2].op = "get_metrics" /\ calls[2].result \in {"ok", "err"}
                       /\ app = after_two

\* C19 witness: a Tick was taken with a session and a metrics snapshot;
\* get_status failed, get_metrics then succeeded and its payload has
\* replaced the snapshot.
C19_Witness ==
    /\ pc = "check"
    /\ cur.ev = Tick
    /\ is_connected(pre.client)
    /\ Len(calls) = 2
    /\ calls[1].result = "err" /\ calls[2].result = "ok"
    /\ is_some(pre.app.daemon_metrics)
    /\ app.daemon_metrics # pre.app.daemon_metrics
    /\ app.daemon_metrics = Some(calls[2].value)
    /\ Len(app.logs) = Len(pre.app.logs) + 1

\* A Tick is taken without a session as well, and both fetches of a Tick
\* can fail.
C19_WitnessIdle ==
    pc = "check" /\ cur.ev = Tick /\ ~is_connected(pre.client)
C19_WitnessBothFail ==
    /\ pc = "check" /\ cur.ev = Tick
    /\ Len(calls) = 2 /\ calls[1].result = "err" /\ calls[2].result = "err"
    /\ Len(app.logs) = Len(pre.app.logs) + 2

\* A call that has been answered.
Done(call) == call.result # "pending"

\* C20: when a connect key is taken without a session, the status is
\* Connecting while the connect call is awaited.  Once the call has
\* succeeded the status is Connected, a session exists, and the handling
\* goes on with get_status, then get_metrics, and ends with exactly these
\* three calls made; a failed connect is followed by no call.  All the
\* while the frame on the screen is the one drawn before the key was
\* taken and the key is the latest event taken.
C20_ConnectThenRefresh ==
    ConnectKey(cur.ev) /\ ~is_connected(pre.client) =>
        /\ pc \in {"await_connect", "await_status", "await_metrics", "check"}
        /\ calls # <<>> /\ calls[1].op = "connect"
        /\ frame.shown = pre.app /\ nrender = ntaken /\ cur.id = ntaken
        /\ pc = "await_connect" <=> calls = <<Call("connect", "")>>
        /\ pc = "await_connect" =>
              app.connection_status = Connecting /\ ~is_connected(client)
        /\ calls[1].result = "err" =>
              pc = "check" /\ Len(calls) = 1 /\ ~is_connected(client)
        /\ calls[1].result = "ok" =>
              /\ app.connection_status = Connected
              /\ is_connected(client)
              /\ pc = "await_status" <=> Len(calls) = 2 /\ calls[2] = Call("get_status", "")
              /\ pc = "await_metrics" <=>
                    /\ Len(calls) = 3
                    /\ calls[2].op = "get_status" /\ Done(calls[2])
                    /\ calls[3] = Call("get_metrics", "")
              /\ pc = "check" <=>
                    /\ Len(calls) = 3
                    /\ calls[2].op = "get_status" /\ Done(calls[2])
                    /\ calls[3].op = "get_metrics" /\ Done(calls[3])

\* C20 witness: the connect succeeded and both fetches after it, the
\* handling of the key is over and another event waits in the channel.
C20_Witness ==
    /\ pc = "check"
    /\ ConnectKey(cur.ev)
    /\ ~is_connected(pre.client)
    /\ app.connection_status = Connected
    /\ Len(calls) = 3
    /\ is_some(app.daemon_status) /\ is_some(app.daemon_metrics)
    /\ queue # <<>>
    /\ frame.shown.connection_status = Disconnected

\* The status is Connecting while the call is awaited after a failed
\* connect too.
C20_WitnessRetry ==
    /\ pc = "await_connect"
    /\ pre.app.connection_status = Error("Connection failed")
    /\ app.connection_status = Connecting

\* The command the Control RPC carries for each index of the selection.
CommandAt(index) ==
    CASE index = 0 -> "ControlCommand::Start"
      [] index = 1 -> "ControlCommand::Stop"
      [] index = 2 -> "ControlCommand::Restart"
      [] index = 3 -> "ControlCommand::Reload"

\* The log entry that reports the outcome of a Control RPC.
OutcomeEntry(outcome) ==
    CASE outcome = "success" -> LogEntry("INFO", "Success: {message}")
      [] outcome = "failure" -> LogEntry("WARN", "Failed: {message}")
      [] outcome = "error" -> LogEntry("ERROR", "Command failed: {e}")

\* C21: while and after a confirm key taken in the Controls panel with a
\* session is handled, one RPC has been made, a Control carrying the
\* command of the action selected when the key was taken; an INFO entry
\* announces it, and once it is answered one more entry reports it, INFO
\* for a reported success, WARN for a reported failure, ERROR for a
\* transport error.  Nothing but the log and its scroll position has
\* changed.  A confirm key taken in another panel makes no RPC and changes
\* nothing.
C21_ConfirmSendsOneControl ==
    ConfirmKey(cur.ev) =>
        IF pre.app.focused_panel = "Controls" /\ is_connected(pre.client)
        THEN LET announced == Append(pre.app.logs, LogEntry("INFO", "Executing: {label}"))
             IN  /\ pc \in {"await_control", "check"}
                 /\ Len(calls) = 1
                 /\ calls[1].op = "control"
                 /\ calls[1].arg = CommandAt(pre.app.selected_action)
                 /\ client = pre.client
                 /\ ChangedFields = {"logs", "log_scroll"}
                 /\ pc = "await_control" =>
                       calls[1].result = "pending" /\ app.logs = announced
                 /\ pc = "check" =>
                       /\ calls[1].result \in ControlResults
                       /\ app.logs = Append(announced, OutcomeEntry(calls[1].result))
        ELSE pre.app.focused_panel # "Controls" =>
                 /\ pc = "check"
                 /\ calls = <<>> /\ inflight = {}
                 /\ app = pre.app /\ client = pre.client

\* C21 witness: the confirm key was taken with Reload selected; the one
\* Control RPC carried Reload, the daemon reported a failure and a WARN
\* entry was appended.
C21_Witness ==
    /\ pc = "check"
    /\ ConfirmKey(cur.ev)
    /\ pre.app.focused_panel = "Controls"
    /\ pre.app.selected_action = 3
    /\ calls = <<[op |-> "control", arg |-> "ControlCommand::Reload",
                  result |-> "failure", value |-> 0]>>
    /\ app.logs[Len(app.logs)].level = "WARN"
    /\ app.connection_status = Connected

\* The other outcomes, the other commands and the other panels occur too.
C21_WitnessError ==
    /\ pc = "check" /\ ConfirmKey(cur.ev) /\ calls # <<>>
    /\ calls[1].result = "error" /\ calls[1].arg = "ControlCommand::Stop"
    /\ app.logs[Len(app.logs)].level = "ERROR"
C21_WitnessSuccess ==
    /\ pc = "check" /\ ConfirmKey(cur.ev) /\ calls # <<>>
    /\ calls[1].result = "success" /\ calls[1].arg = "ControlCommand::Restart"
    /\ app.logs[Len(app.logs)].level = "INFO"
C21_WitnessOtherPanel ==
    /\ pc = "check" /\ ConfirmKey(cur.ev)
    /\ pre.app.focused_panel = "Logs" /\ is_connected(pre.client)

\* C22: the quit flag is set only by the step that takes a quit key or
\* Ctrl+c from the channel, which the loop does only when it waits for an
\* event with no RPC unanswered and after it has taken every event sent
\* before; a quit binding still in the channel changes nothing.  Once set
\* the flag stays set, the loop is at the quit check of that iteration or
\* has returned, and from then on no event is taken, no RPC is made, no
\* frame is drawn and the state does not change: the only step left to the
\* loop is to return.
C22_QuitAtItsTurnAndFinal ==
    /\ [](app.should_quit =>
             /\ pc \in {"check", "done"}
             /\ inflight = {} /\ calls = <<>>
             /\ pc = "check" => (QuitKey(cur.ev) \/ QuitCombo(cur.ev)) /\ cur.id = ntaken)
    /\ [][app'.should_quit # app.should_quit =>
             (app'.should_quit
                 /\ pc = "wait" /\ pc' = "check" /\ inflight = {}
                 /\ (QuitKey(cur'.ev) \/ QuitCombo(cur'.ev))
                 /\ cur' = Head(queue)
                 /\ cur'.id = ntaken + 1
                 /\ app' = [app EXCEPT !.should_quit = TRUE])]_vars
    /\ [][app.should_quit =>
             (app' = app /\ client' = client
                 /\ ntaken' = ntaken /\ nrender' = nrender /\ frame' = frame
                 /\ inflight' = {} /\ calls' = <<>>
                 /\ (pc' # pc => pc' = "done" /\ result' = "ok"))]_vars

\* C22 witness: run_app has returned on a quit key that was the second
\* event; the first, a connect key, had its RPCs answered before, and an
\* event sent after the quit key was never taken: it went with the channel.
C22_Witness ==
    /\ pc = "done" /\ result = "ok"
    /\ app.should_quit
    /\ app.connection_status \in {Connected, Error("Connection failed")}
    /\ ntaken = 2 /\ nemitted = 3
    /\ queue = <<>>
    /\ nrender = 2

\* The quit key has been handled and the flag is set, the quit check is
\* still to come, and a later event waits in the channel.
C22_WitnessBehindQuit ==
    /\ pc = "check" /\ app.should_quit
    /\ queue # <<>> /\ Head(queue).id = ntaken + 1

\* A quit key waits in the channel while an RPC is unanswered, and the
\* flag is not set.
C22_WitnessQueued ==
    /\ pc \in Awaits
    /\ queue # <<>> /\ QuitKey(Head(queue).ev)
    /\ ~app.should_quit

\* The keys bound in every panel, and the events that have no binding where
\* they are taken: a resize or pointer event, a key that is not global
\* taken with the focus on Status, the confirm key taken with the focus on
\* Logs.
GlobalKey(ev) ==
    QuitKey(ev) \/ QuitCombo(ev) \/ FocusKey(ev) \/ ConnectKey(ev) \/ DisconnectKey(ev)
NoBinding(ev, panel) ==
    \/ ev.kind \in {"Resize", "Mouse"}
    \/ ev.kind = "Key" /\ ~GlobalKey(ev) /\ panel = "Status"
    \/ ConfirmKey(ev) /\ panel = "Logs"
UpDownKey(ev) == SelectNextKey(ev) \/ SelectPrevKey(ev)

\* C23: an event with no binding where it is taken is handled without an
\* await and leaves the App and the client as they were, and no RPC is
\* made for it.  An up or down key taken in the Controls panel changes no
\* field but selected_action, one taken in the Logs panel no field but
\* log_scroll; neither touches the client or makes an RPC.
C23_UnboundEventsChangeNothing ==
    /\ NoBinding(cur.ev, pre.app.focused_panel) =>
          /\ pc = "check"
          /\ app = pre.app /\ client = pre.client
          /\ calls = <<>> /\ inflight = {}
    /\ UpDownKey(cur.ev) /\ pre.app.focused_panel = "Controls" =>
          /\ pc = "check"
          /\ ChangedFields \subseteq {"selected_action"}
          /\ client = pre.client /\ calls = <<>> /\ inflight = {}
    /\ UpDownKey(cur.ev) /\ pre.app.focused_panel = "Logs" =>
          /\ pc = "check"
          /\ ChangedFields \subseteq {"log_scroll"}
          /\ client = pre.client /\ calls = <<>> /\ inflight = {}

\* The confirm key has been handled with the focus on Logs while a session
\* was held.
C23_Witness ==
    /\ pc = "check"
    /\ ConfirmKey(cur.ev) /\ pre.app.focused_panel = "Logs"
    /\ is_connected(pre.client)

\* A resize, and a pointer event, has been handled while a session was held.
C23_WitnessResize == pc = "check" /\ cur.ev = Resize /\ is_connected(pre.client)
C23_WitnessMouse == pc = "check" /\ cur.ev = Mouse /\ is_connected(pre.client)

\* A key bound nowhere, and the confirm key, has been handled with the
\* focus on Status.
C23_WitnessStatusKey ==
    /\ pc = "check"
    /\ cur.ev = Key("Esc", {}) /\ pre.app.focused_panel = "Status"
C23_WitnessStatusConfirm ==
    /\ pc = "check"
    /\ ConfirmKey(cur.ev) /\ pre.app.focused_panel = "Status"
    /\ is_connected(pre.client)

\* A down key has moved the selection, and an up key has scrolled the log.
C23_WitnessSelection ==
    /\ SelectNextKey(cur.ev) /\ pre.app.focused_panel = "Controls"
    /\ ChangedFields = {"selected_action"}
C23_WitnessScroll ==
    /\ SelectPrevKey(cur.ev) /\ pre.app.focused_panel = "Logs"
    /\ ChangedFields = {"log_scroll"}

\* Where the main loop is between events: about to draw, waiting for the
\* next event, at the quit check, or out of the loop.
BetweenEvents == {"render", "wait", "check", "done"}

\* C24: whenever the main loop is between events the client holds a session
\* exactly when ConnectionStatus is Connected.  The two disagree nowhere
\* but inside connect_to_daemon while client.connect() is unanswered, where
\* the status is Connecting and no session is held; during every other RPC
\* they agree as well.
C24_StatusMatchesSession ==
    /\ pc \in BetweenEvents =>
          (is_connected(client) <=> app.connection_status = Connected)
    /\ pc \in Awaits \ {"await_connect"} =>
          is_connected(client) /\ app.connection_status = Connected
    /\ pc = "await_connect" =>
          ~is_connected(client) /\ app.connection_status = Connecting

\* A connect key taken after a failed connect has been answered with a
\* session, and a snapshot RPC made for it has failed: the status is
\* Connected and the session is held.
C24_Witness ==
    /\ pc = "check"
    /\ ConnectKey(cur.ev)
    /\ pre.app.connection_status = Error("Connection failed")
    /\ \E i \in 1..Len(calls) :
          calls[i].op # "connect" /\ calls[i].result \in {"err", "failure", "error"}
    /\ is_connected(client) /\ app.connection_status = Connected

\* A connect has failed: the status is Error and no session is held.
C24_WitnessFailedConnect ==
    /\ pc = "check"
    /\ ConnectKey(cur.ev)
    /\ app.connection_status = Error("Connection failed")
    /\ ~is_connected(client)

\* A disconnect key has been handled after a session was held, and a
\* second one after that.
C24_WitnessDisconnected ==
    /\ pc = "check"
    /\ DisconnectKey(cur.ev) /\ is_connected(pre.client)
    /\ app.connection_status = Disconnected /\ ~is_connected(client)
C24_WitnessDisconnectTwice ==
    /\ pc = "check"
    /\ DisconnectKey(cur.ev) /\ DisconnectKey(last.ev)
    /\ pre.app.connection_status = Disconnected /\ ~is_connected(client)

\* The log of an App holds the entry that connect_to_daemon writes with the
\* Connecting status.
LoggedConnecting(a) ==
    \E i \in 1..Len(a.logs) : a.logs[i].message = "Connecting to daemon..."

\* C25: ConnectionStatus is Connecting exactly while the main task is
\* inside the dispatch of a connect key with client.connect() unanswered;
\* when that dispatch has ended the status is Connected or Error.  The
\* status is therefore not Connecting at a draw, at the wait for an event or
\* at the quit check, and no frame drawn shows the Connecting state or its
\* text.
C25_NoFrameShowsConnecting ==
    /\ app.connection_status = Connecting <=> pc = "await_connect"
    /\ pc = "await_connect" => ConnectKey(cur.ev) /\ CalledOps = {"connect"}
    /\ pc = "check" /\ "connect" \in CalledOps =>
          app.connection_status \in {Connected, Error("Connection failed")}
    /\ frame.shown.connection_status # Connecting
    /\ frame.status_text # "Connecting..."

\* A frame has been drawn after a connect key was handled: the log holds
\* the entry written with the Connecting status, and the frame, drawn from
\* the state the dispatch left, has the outcome as its status text.
C25_Witness ==
    /\ pc = "wait" /\ nrender >= 2
    /\ ConnectKey(last.ev) /\ ~last.connected
    /\ LoggedConnecting(app)
    /\ frame = render_dashboard(app)
    /\ frame.status_text \in {"Connected", "Connection failed"}

\* The status is Connecting while client.connect() is unanswered, and the
\* frame on the screen is the one drawn before the key was taken.
C25_WitnessConnecting ==
    /\ pc = "await_connect"
    /\ app.connection_status = Connecting
    /\ LoggedConnecting(app)
    /\ nrender >= 1 /\ frame = render_dashboard(pre.app)

\* Each of the two outcomes has been drawn.
C25_WitnessDrawnConnected ==
    pc = "wait" /\ ConnectKey(last.ev) /\ frame.status_text = "Connected"
C25_WitnessDrawnError ==
    pc = "wait" /\ ConnectKey(last.ev) /\ frame.status_text = "Connection failed"

\* The cycles of the polling task it takes at most to reach the tick
\* interval from an elapsed time e when every cycle advances on the time
\* grid: the time left to the next Tick (lines 39-41) is zero once an
\* interval or more has passed.  And the sends that many cycles can make:
\* an input event in each and the Tick of the last.
CyclesToTick(e) ==
    IF e >= TICK_RATE_MS THEN 0 ELSE (TICK_RATE_MS - e + TimeStep - 1) \div TimeStep
SendsToTick(e) == CyclesToTick(e) + 1
TickSent == tick_gap >= TICK_RATE_MS

\* C26: input cannot starve the Ticks.  A cycle of the polling task sends
\* at most one input event and at most one Tick, and when it sends both the
\* input event is in the channel before the Tick; a cycle that has sent an
\* input event has made the tick check all the same, so while the receiver
\* exists less than an interval has passed after any cycle.  With something
\* to read in every cycle and time advancing, a cycle that sends a Tick
\* comes as long as the receiver exists, unless the events followed are
\* used up first.
C26_InputCannotStarveTicks ==
    /\ [][nemitted' # nemitted =>
             LET sent == SentInStep(queue', nemitted)
                 inputs == {i \in sent : queue'[i].ev # Tick}
                 ticks == {i \in sent : queue'[i].ev = Tick}
             IN  /\ queue' = queue \o SubSeq(queue', Len(queue) + 1, Len(queue'))
                 /\ sent = (Len(queue) + 1)..Len(queue')
                 /\ Cardinality(inputs) <= 1
                 /\ Cardinality(ticks) <= 1
                 /\ \A i \in inputs, j \in ticks : i < j /\ queue'[i].id < queue'[j].id
                 /\ ticks = {} => elapsed' < TICK_RATE_MS
                 /\ ticks # {} <=> TickSent']_vars
    /\ [](rx_alive => elapsed < TICK_RATE_MS)
    /\ (es_pc = "run" /\ rx_alive /\ ~TickSent)
           ~> (TickSent \/ ~rx_alive \/ nemitted + SendsToTick(elapsed) > MaxEmit)

\* Every cycle so far has sent an input event, none has been taken, and the
\* latest has sent the Tick behind its input event.
C26_Witness ==
    /\ TickSent
    /\ Len(queue) = MaxEmit /\ nemitted = MaxEmit
    /\ \A i \in 1..(Len(queue) - 1) : queue[i].ev.kind \in {"Key", "Mouse", "Resize"}
    /\ queue[Len(queue)].ev = Tick
    /\ queue[Len(queue)].id = queue[Len(queue) - 1].id + 1

\* An input event has been sent by a cycle in which no interval had
\* passed: no Tick is behind it.
C26_WitnessInputOnly ==
    /\ rx_alive /\ ~TickSent
    /\ queue # <<>> /\ queue[Len(queue)].ev # Tick
    /\ queue[Len(queue)].id = nemitted
    /\ elapsed > 0

====
